---- MODULE Spec2Model ----
(***************************************************************************)
(* Model of the AI routes of the ERP backend (forecast, churn, OCR,        *)
(* sentiment) and of the store tables they read and write.                 *)
(*                                                                         *)
(* Every handler is an async function: between two awaits it runs without  *)
(* interruption, at an await other requests may run.  Each action below is *)
(* the code of one handler between two awaits.  A request slot holds one   *)
(* inbound request at a time; pc[r] is the await it is suspended at.       *)
(*                                                                         *)
(* The store is PostgreSQL through Prisma (READ COMMITTED): a statement    *)
(* sees the rows committed when it runs, the writes of an interactive      *)
(* $transaction become visible together at commit and are dropped when the *)
(* callback throws.  Row locks only delay a statement; they do not change  *)
(* the rows it ends up writing, so they are not modelled.                  *)
(*                                                                         *)
(* Churn scores are scaled by 100 (0.8 is 80).  Order dates are kept as    *)
(* their position relative to "now": older than the two-year lookback      *)
(* ("stale"), inside it and not after now ("window"), after now ("future").*)
(*                                                                         *)
(* Feature extraction of the churn handler and the sales-trends query of   *)
(* the analytics routes are functions of the orders they read; they are    *)
(* applied to order rows that carry a date (a day number) and an amount.   *)
(***************************************************************************)
EXTENDS Integers, Sequences, FiniteSets, TLC

\* ---------------------------------------------------------------- bounds
MaxPredictions == 3      \* rows the churnPrediction table may hold
MaxReplyLen == 2         \* predictions in one upstream reply
MaxForecasts == 2        \* rows the salesForecast table may hold
MaxOrders == 10          \* rows the order table may hold
MaxTime == 1             \* ticks of the clock
MaxRows == 2             \* orders read by feature extraction and analytics

\* ------------------------------------------------------------ input sets
Clients == {"c1", "c2"}
Slots == {1, 2}
ClientStatuses == {"ACTIVE", "INACTIVE"}
ScoreSamples == {60}
AllScores == 0 .. 100
RiskFactorInputs == {"undefined", "f"}
UpstreamStatuses == {400, 404, 500}
AxiosErrorCodes ==
  {"ECONNREFUSED", "ECONNABORTED", "ENOTFOUND", "EHOSTUNREACH", "ERR_BAD_RESPONSE"}
UpstreamMessages == {"undefined", "upstream message"}
OrderAges == {"stale", "window", "future"}
OrderInputs == ({"c1"} \X OrderAges) \cup {<<"c2", "window">>}
FeedbackIds == {"f1"}
FeedbackIdInputs == {"undefined", "f1", "missing"}
SentimentLabels == {"undefined", "positive"}
\* the day new Date() falls on when features are extracted; dates are day numbers
Today == 200
\* order dates around the window limits now-180d, now-90d and now
DateSamples == {Today - 181, Today - 180, Today - 91, Today - 90, Today - 89, Today, Today + 1}
AmountSamples == {10, 25}
OrderRowInputs == [orderDate : DateSamples, totalAmount : AmountSamples]
TrendPeriods == {"undefined", "daily", "weekly", "monthly"}
DateInputs == {"undefined", "2024-01-01"}
\* what the database does with a statement whose SQL fragments arrive as
\* bound parameters: it rejects it, or runs it with them as constants
QueryRawOutcomes == {"rejected", "constants"}
Products == {"p1", "p2"}
\* product.price of each catalog product
CatalogPrice == [p \in Products |-> IF p = "p1" THEN 8 ELSE 20]
\* req.query.startDate / endDate of the ranking routes as a day number, NoDate
\* when the parameter is absent
NoDate == 0
MaxBilling == 1
MaxClientRows == 2
\* req.body.phone and req.body.businessId of the client routes
Phones == {"ph1", "ph2"}
BusinessIds == {"undefined", "b1"}
\* req.params.id of the client routes
ClientIdInputs == 1 .. MaxClientRows
MaxItems == 2
\* req.user.role
Roles == {"ADMIN", "MANAGER", "USER", "DRIVER"}
\* req.body.clientId of POST /orders: a stored client, an unknown one
OrderClientInputs == {1, 3}
\* items[].productId of POST /orders: a stored product, an unknown one
OrderProductInputs == {"p1", "p3"}
\* req.params.id of the delete routes
DeleteClientInputs == {1, 3}
DeleteProductInputs == {"p1", "p3"}
\* invoice rows: sent and past due, paid and past due
InvoiceInputs ==
  {[status |-> "SENT", dueDate |-> Today - 1],
   [status |-> "PAID", dueDate |-> Today - 1]}
\* delivery rows: failed 7 days ago, failed 8 days ago
DeliveryInputs ==
  {[status |-> "FAILED", scheduledDate |-> Today - 7],
   [status |-> "FAILED", scheduledDate |-> Today - 8]}
\* churn scores of the tiers MEDIUM, HIGH and CRITICAL
AlertScores == {40, 60, 80}
StartDates == {NoDate, Today - 90}
EndDates == {NoDate, Today}
\* req.query.limit
LimitInputs == {"undefined", "0", "1", "2"}
\* orders of the ranking routes, each with its one order item: the item's
\* totalPrice is unitPrice * quantity, the order's totalAmount adds 10% tax
RankedRows(dates, products, unitPrices) ==
  {[clientId |-> c, orderDate |-> d, productId |-> p, quantity |-> q,
    totalPrice |-> u * q, totalAmount |-> u * q + (u * q) \div 10] :
     c \in Clients, d \in dates, p \in products, q \in {1, 2}, u \in unitPrices}
TopClientRowInputs == RankedRows({Today - 90, Today - 89, Today}, {"p1"}, {10})
ProfitabilityRowInputs == RankedRows({Today}, Products, {0, 10})

VARIABLES
  client,           \* prisma.client: status column of each client row
  order,            \* prisma.order: number of rows per client and date position
  churnPrediction,  \* prisma.churnPrediction: the committed rows, in insertion order
  salesForecast,    \* prisma.salesForecast: the committed rows, in insertion order
  feedback,         \* prisma.feedback: sentiment columns of each feedback row
  uploads,          \* slots whose uploaded file exists under uploads/ocr
  now,              \* the clock read by new Date()
  pc,               \* per slot: the await the handler is suspended at
  res,              \* per slot: the response sent, [status, message], or NoRes
  axiosError,       \* per slot: error.code caught in makeAIRequest ("none": it returned)
  clients,          \* churn handler local `clients` (ids found by findMany)
  churnRecords,     \* churn handler local `churnRecords`
  txRetired,        \* rows the open transaction's updateMany has set isActive=false on
  forecastReq,      \* forecast handler locals clientId, period
  forecastRecords,  \* forecast handler local `forecastRecords`
  reqFile,          \* OCR handler: req.file is set
  sentimentReq,     \* sentiment handler locals feedbackId, sentimentResult.sentiment
  axiosPosts,       \* per slot: axios.post calls made for the request in the slot
  axiosResponse,    \* per slot: error.response caught in makeAIRequest, if any
  orderRows,        \* the orders read by feature extraction and by the analytics
                    \* queries, each with its orderDate (a day) and totalAmount
  clientFeatures,   \* churn handler: the element of `clientFeatures` built last
  salesTrends,      \* GET /analytics/sales-trends: the response sent last
  topClients,       \* GET /analytics/top-clients: the response sent last
  profitability,    \* GET /analytics/profitability: the response sent last
  invoice,          \* prisma.invoice: status and dueDate of each row
  deliverySchedule, \* prisma.deliverySchedule: the committed rows
  alerts,           \* GET /analytics/alerts: the response sent last
  clientRows,       \* prisma.client: id, phone and businessId of each row
  product,          \* prisma.product: ids of the rows
  crudReq           \* per slot: the client, product or order request being served

storeVars == <<client, order, churnPrediction, salesForecast, feedback>>
\* handler locals that the end of a request drops
locals == <<clients, churnRecords, forecastReq, forecastRecords, sentimentReq>>
\* what feature extraction and the analytics routes read and produce
analytics == <<orderRows, clientFeatures, salesTrends, topClients, profitability>>
\* the tables and locals of the alert, client, product and order routes
erp == <<invoice, deliverySchedule, alerts, clientRows, product, crudReq>>
vars == <<client, order, churnPrediction, salesForecast, feedback, uploads, now,
          pc, res, axiosError, clients, churnRecords, txRetired,
          forecastReq, forecastRecords, reqFile, sentimentReq,
          axiosPosts, axiosResponse, orderRows, clientFeatures, salesTrends,
          topClients, profitability,
          invoice, deliverySchedule, alerts, clientRows, product, crudReq>>

NoRes == [status |-> 0, message |-> "none"]
NoForecastReq == [clientId |-> "null", period |-> "none"]
NoSentimentReq == [feedbackId |-> "undefined", sentiment |-> "undefined"]
NoResponse == [status |-> 0, message |-> "undefined"]
NoFeatures == [client_id |-> "none"]
NoTrends == [status |-> 0, period |-> "none", startDate |-> "undefined",
             endDate |-> "undefined", trends |-> << >>]
NoTopClients == [status |-> 0, limit |-> "undefined", startDate |-> 0,
                 endDate |-> 0, topClients |-> << >>]
NoProfitability == [status |-> 0, startDate |-> 0, endDate |-> 0,
                    productProfitability |-> << >>, clientProfitability |-> << >>]
NoAlerts == [status |-> 0, alerts |-> << >>, totalAlerts |-> 0]
NoCrudReq == [route |-> "none"]
\* the client rows behind `Clients`
SeededClientRows ==
  <<[id |-> 1, phone |-> "ph1", businessId |-> "null"],
    [id |-> 2, phone |-> "ph2", businessId |-> "null"]>>

\* ------------------------------------------------ makeAIRequest (gateway)
\* variant: the catch block tests for a different error code
GatewayErrorWrongCode(code, upstreamStatus, upstreamMessage) ==
  IF code = "ECONNRESET"
  THEN [status |-> 503, message |-> "AI services are currently unavailable"]
  ELSE IF code = "ERR_BAD_RESPONSE"
  THEN [status |-> upstreamStatus,
        message |-> IF upstreamMessage = "undefined" THEN "AI service error"
                    ELSE upstreamMessage]
  ELSE [status |-> 500, message |-> "AI service error"]

\* variant: the upstream reply is reported with a fixed status and message
GatewayErrorFixed(code, upstreamStatus, upstreamMessage) ==
  IF code = "ECONNREFUSED"
  THEN [status |-> 503, message |-> "AI services are currently unavailable"]
  ELSE [status |-> 500, message |-> "AI service error"]

\* the CustomError thrown by the catch block of makeAIRequest.  Only an error
\* that carries a reply (code ERR_BAD_RESPONSE here) has error.response;
\* error.response?.data?.message || 'AI service error' falls back when the
\* reply body has no message
GatewayError(code, upstreamStatus, upstreamMessage) ==
  IF code = "ECONNREFUSED"
  THEN [status |-> 503, message |-> "AI services are currently unavailable"]
  ELSE IF code = "ERR_BAD_RESPONSE"
  THEN [status |-> upstreamStatus,
        message |-> IF upstreamMessage = "undefined" THEN "AI service error"
                    ELSE upstreamMessage]
  ELSE [status |-> 500, message |-> "AI service error"]

\* ------------------------------------------------------ churn: pure parts
CriticalMin == 80
HighMin == 60
MediumMin == 40

\* variant: strict comparisons, a boundary score falls into the lower tier
riskLevelStrict(churn_score) ==
  IF churn_score > CriticalMin THEN "CRITICAL"
  ELSE IF churn_score > HighMin THEN "HIGH"
  ELSE IF churn_score > MediumMin THEN "MEDIUM"
  ELSE "LOW"

\* variant: the HIGH branch is missing
riskLevelNoHigh(churn_score) ==
  IF churn_score >= CriticalMin THEN "CRITICAL"
  ELSE IF churn_score >= MediumMin THEN "MEDIUM"
  ELSE "LOW"

riskLevel(churn_score) ==
  IF churn_score >= CriticalMin THEN "CRITICAL"
  ELSE IF churn_score >= HighMin THEN "HIGH"
  ELSE IF churn_score >= MediumMin THEN "MEDIUM"
  ELSE "LOW"

\* one element of churnAnalysis.predictions.map(...)
ChurnRecord(prediction, date) ==
  [clientId |-> prediction.client_id,
   churnScore |-> prediction.churn_score,
   riskLevel |-> riskLevel(prediction.churn_score),
   riskFactors |-> IF prediction.risk_factors = "undefined" THEN "{}"
                   ELSE prediction.risk_factors,
   predictionDate |-> date]

ToChurnRecords(predictions, date) ==
  [i \in 1 .. Len(predictions) |-> ChurnRecord(predictions[i], date)]

RecordClientIds(records) == {records[i].clientId : i \in 1 .. Len(records)}

\* column default of churnPrediction.isActive (createMany never sets it)
IsActiveDefault == TRUE

\* tx.churnPrediction.updateMany: the rows its where clause matches
UpdateManyTargets(table, records) ==
  {i \in 1 .. Len(table) :
     table[i].clientId \in RecordClientIds(records) /\ table[i].isActive}

\* variant: the matched rows are deleted instead of flagged
RetireRowsDelete(table, rows) ==
  LET kept[n \in 0 .. Len(table)] ==
        IF n = 0 THEN << >>
        ELSE IF n \in rows THEN kept[n - 1] ELSE Append(kept[n - 1], table[n])
  IN kept[Len(table)]

\* data: { isActive: false } applied to the matched rows
RetireRows(table, rows) ==
  [i \in 1 .. Len(table) |->
     IF i \in rows THEN [table[i] EXCEPT !.isActive = FALSE] ELSE table[i]]

\* tx.churnPrediction.createMany: the rows it inserts
NewRows(records) ==
  [i \in 1 .. Len(records) |->
     [clientId |-> records[i].clientId,
      churnScore |-> records[i].churnScore,
      riskLevel |-> records[i].riskLevel,
      riskFactors |-> records[i].riskFactors,
      predictionDate |-> records[i].predictionDate,
      isActive |-> IsActiveDefault]]

\* the table once prisma.$transaction has resolved
TxCommitted(table, rows, records) == RetireRows(table, rows) \o NewRows(records)

\* variant: updateMany ran outside the transaction and is not undone
TxRolledBackPartial(table, rows) == RetireRows(table, rows)

\* the table once the $transaction callback has thrown
TxRolledBack(table, rows) == table

\* where clause of client.findMany in the churn handler
ChurnSubjects(clientIds) ==
  {c \in Clients :
     client[c] = "ACTIVE" /\ (clientIds # {} => c \in clientIds)}

\* churnAnalysis.predictions as the upstream may send it
Predictions(scores, factors) ==
  [client_id : Clients, churn_score : scores, risk_factors : factors]

PredictionSeqs(scores, factors, maxLen) ==
  UNION {[1 .. n -> Predictions(scores, factors)] : n \in 0 .. maxLen}

\* --------------------------------------------------- forecast: pure parts
MinHistory == 10
\* statuses the handlers give their own errors
InsufficientDataStatus == 400
NotFoundStatus == 404
DefaultConfidence == 95

\* prisma.order.findMany in the forecast handler: where.orderDate = { gte: startDate }
\* has no upper limit, so orders dated after now are returned too
HistoricalData(table, clientId) ==
  LET scope == IF clientId = "null" THEN Clients ELSE {clientId}
      n[S \in SUBSET Clients] ==
        IF S = {} THEN 0
        ELSE LET c == CHOOSE x \in S : TRUE
             IN table[c]["window"] + table[c]["future"] + n[S \ {c}]
  IN n[scope]

\* one element of forecast.predictions.map(...)
ForecastRecord(prediction, clientId, period) ==
  [clientId |-> clientId,
   forecastDate |-> prediction.date,
   predictedAmount |-> prediction.amount,
   confidenceInterval |-> IF prediction.confidence = 0
                          THEN DefaultConfidence ELSE prediction.confidence,
   period |-> period]

ToForecastRecords(predictions, clientId, period) ==
  [i \in 1 .. Len(predictions) |-> ForecastRecord(predictions[i], clientId, period)]

ForecastPoints(dates, confidences) ==
  [date : dates, amount : {100}, confidence : confidences]

ForecastSeqs(dates, confidences, maxLen) ==
  UNION {[1 .. n -> ForecastPoints(dates, confidences)] : n \in 0 .. maxLen}

\* variant: the new forecast takes the place of the stored ones
CreateManyReplace(table, records) == records

\* prisma.salesForecast.createMany: the rows are added to the table
CreateMany(table, records) == table \o records

TotalOrders(table) ==
  LET n[S \in SUBSET (Clients \X OrderAges)] ==
        IF S = {} THEN 0
        ELSE LET p == CHOOSE x \in S : TRUE IN table[p[1]][p[2]] + n[S \ {p}]
  IN n[Clients \X OrderAges]

\* ------------------------------------------------- sentiment: pure parts
\* sentimentResult.sentiment?.toUpperCase() || 'NEUTRAL'
StoredSentiment(label) ==
  IF label = "undefined" THEN "NEUTRAL"
  ELSE IF label = "positive" THEN "POSITIVE"
  ELSE "NEGATIVE"

\* ------------------------------------------------------------------ Init
NoOrders == [c \in Clients |-> [a \in OrderAges |-> 0]]

InitStore(orders, rows, invoices, deliveries, clientTable) ==
  /\ client = [c \in Clients |-> "ACTIVE"]
  /\ order = orders
  /\ churnPrediction = << >>
  /\ salesForecast = << >>
  /\ feedback = [f \in FeedbackIds |-> [sentiment |-> "null", isProcessed |-> FALSE]]
  /\ uploads = {}
  /\ now = 0
  /\ pc = [r \in Slots |-> "idle"]
  /\ res = [r \in Slots |-> NoRes]
  /\ axiosError = [r \in Slots |-> "none"]
  /\ clients = [r \in Slots |-> {}]
  /\ churnRecords = [r \in Slots |-> << >>]
  /\ txRetired = [r \in Slots |-> {}]
  /\ forecastReq = [r \in Slots |-> NoForecastReq]
  /\ forecastRecords = [r \in Slots |-> << >>]
  /\ reqFile = [r \in Slots |-> FALSE]
  /\ sentimentReq = [r \in Slots |-> NoSentimentReq]
  /\ axiosPosts = [r \in Slots |-> 0]
  /\ axiosResponse = [r \in Slots |-> NoResponse]
  /\ orderRows = rows
  /\ clientFeatures = NoFeatures
  /\ salesTrends = NoTrends
  /\ topClients = NoTopClients
  /\ profitability = NoProfitability
  /\ invoice = invoices
  /\ deliverySchedule = deliveries
  /\ alerts = NoAlerts
  /\ clientRows = clientTable
  /\ product = Products
  /\ crudReq = [r \in Slots |-> NoCrudReq]

InitOver(orders, rows) == InitStore(orders, rows, << >>, << >>, SeededClientRows)

InitWith(orders) == InitOver(orders, << >>)

Init == InitWith(NoOrders)

\* res.status(..).json(..) or next(error): the handler is over, its locals are gone
Respond(r, status, message) ==
  /\ pc' = [pc EXCEPT ![r] = "done"]
  /\ res' = [res EXCEPT ![r] = [status |-> status, message |-> message]]
  /\ clients' = [clients EXCEPT ![r] = {}]
  /\ churnRecords' = [churnRecords EXCEPT ![r] = << >>]
  /\ forecastReq' = [forecastReq EXCEPT ![r] = NoForecastReq]
  /\ forecastRecords' = [forecastRecords EXCEPT ![r] = << >>]
  /\ sentimentReq' = [sentimentReq EXCEPT ![r] = NoSentimentReq]

\* makeAIRequest up to its await: the one axios.post call
AxiosPost(r) ==
  /\ axiosPosts' = [axiosPosts EXCEPT ![r] = @ + 1]
  /\ UNCHANGED axiosResponse

\* variant: the catch block posts the request once more before it throws
MakeAIRequestRetries(r, code, upstreamStatus, upstreamMessage) ==
  /\ axiosError' = [axiosError EXCEPT ![r] = code]
  /\ axiosResponse' = [axiosResponse EXCEPT ![r] =
       IF code = "ERR_BAD_RESPONSE"
       THEN [status |-> upstreamStatus, message |-> upstreamMessage]
       ELSE NoResponse]
  /\ axiosPosts' = [axiosPosts EXCEPT ![r] = @ + 1]
  /\ LET e == GatewayError(code, upstreamStatus, upstreamMessage)
     IN Respond(r, e.status, e.message)

\* axios.post rejects: the catch block of makeAIRequest throws a CustomError,
\* the handler's catch passes it to next(error)
MakeAIRequestThrows(r, code, upstreamStatus, upstreamMessage) ==
  /\ axiosError' = [axiosError EXCEPT ![r] = code]
  /\ axiosResponse' = [axiosResponse EXCEPT ![r] =
       IF code = "ERR_BAD_RESPONSE"
       THEN [status |-> upstreamStatus, message |-> upstreamMessage]
       ELSE NoResponse]
  /\ UNCHANGED axiosPosts
  /\ LET e == GatewayError(code, upstreamStatus, upstreamMessage)
     IN Respond(r, e.status, e.message)

\* the slot takes the next inbound request
NextRequest(r) ==
  /\ pc[r] = "done"
  /\ pc' = [pc EXCEPT ![r] = "idle"]
  /\ res' = [res EXCEPT ![r] = NoRes]
  /\ axiosError' = [axiosError EXCEPT ![r] = "none"]
  /\ txRetired' = [txRetired EXCEPT ![r] = {}]
  /\ reqFile' = [reqFile EXCEPT ![r] = FALSE]
  /\ axiosPosts' = [axiosPosts EXCEPT ![r] = 0]
  /\ axiosResponse' = [axiosResponse EXCEPT ![r] = NoResponse]
  /\ UNCHANGED <<now, storeVars, uploads, locals>>
  /\ UNCHANGED <<analytics, erp>>

\* the clock advances
Tick ==
  /\ now < MaxTime
  /\ now' = now + 1
  /\ UNCHANGED <<storeVars, uploads, pc, res, axiosError, txRetired, reqFile, locals>>
  /\ UNCHANGED <<analytics, erp, axiosPosts, axiosResponse>>

\* ------------------------------------------------------- PUT /clients/:id
UpdateClientStatus(c, s) ==
  /\ client[c] # s
  /\ client' = [client EXCEPT ![c] = s]
  /\ UNCHANGED <<now, order, churnPrediction, salesForecast, feedback, uploads>>
  /\ UNCHANGED <<pc, res, axiosError, txRetired, reqFile, locals>>
  /\ UNCHANGED <<analytics, erp, axiosPosts, axiosResponse>>

\* ----------------------------------------------------------- POST /orders
\* tx.order.create: the order row, dated by the caller's orderDate
OrderCreate(c, age) ==
  /\ TotalOrders(order) < MaxOrders
  /\ order' = [order EXCEPT ![c][age] = @ + 1]
  /\ UNCHANGED <<now, client, churnPrediction, salesForecast, feedback, uploads>>
  /\ UNCHANGED <<pc, res, axiosError, txRetired, reqFile, locals>>
  /\ UNCHANGED <<analytics, erp, axiosPosts, axiosResponse>>

\* time passes: an order dated after now is reached by now, an order inside
\* the lookback falls out of it
TimePasses(c, age) ==
  /\ age \in {"future", "window"}
  /\ order[c][age] > 0
  /\ LET older == IF age = "future" THEN "window" ELSE "stale" IN
       order' = [order EXCEPT ![c][age] = @ - 1, ![c][older] = @ + 1]
  /\ UNCHANGED <<now, client, churnPrediction, salesForecast, feedback, uploads>>
  /\ UNCHANGED <<pc, res, axiosError, txRetired, reqFile, locals>>
  /\ UNCHANGED <<analytics, erp, axiosPosts, axiosResponse>>

\* --------------------------------------------------------- POST /forecast
ForecastValidationFailed(r) ==
  /\ pc[r] = "idle"
  /\ Respond(r, 400, "Validation failed")
  /\ UNCHANGED <<now, storeVars, uploads, axiosError, txRetired, reqFile>>
  /\ UNCHANGED <<analytics, erp, axiosPosts, axiosResponse>>

\* prisma.order.findMany and the minimum-history check
ForecastFindOrders(r, clientId, period) ==
  /\ pc[r] = "idle"
  /\ IF HistoricalData(order, clientId) < MinHistory
     THEN /\ Respond(r, InsufficientDataStatus, "Insufficient historical data for forecasting")
          /\ UNCHANGED <<axiosPosts, axiosResponse>>
     ELSE /\ pc' = [pc EXCEPT ![r] = "forecast_ai"]
          /\ forecastReq' = [forecastReq EXCEPT ![r] =
                               [clientId |-> clientId, period |-> period]]
          /\ AxiosPost(r)
          /\ UNCHANGED <<res, clients, churnRecords, forecastRecords, sentimentReq>>
  /\ UNCHANGED <<now, storeVars, uploads, axiosError, txRetired, reqFile>>
  /\ UNCHANGED <<analytics, erp>>

\* makeAIRequest('/forecast') throws
ForecastAIFailed(r, code, upstreamStatus, upstreamMessage) ==
  /\ pc[r] = "forecast_ai"
  /\ MakeAIRequestThrows(r, code, upstreamStatus, upstreamMessage)
  /\ UNCHANGED <<now, storeVars, uploads, txRetired, reqFile>>
  /\ UNCHANGED <<analytics, erp>>

\* makeAIRequest('/forecast') returns response.data; the handler maps it
ForecastAIReplied(r, predictions) ==
  /\ pc[r] = "forecast_ai"
  /\ forecastRecords' = [forecastRecords EXCEPT ![r] =
       ToForecastRecords(predictions, forecastReq[r].clientId, forecastReq[r].period)]
  /\ pc' = [pc EXCEPT ![r] = "forecast_create"]
  /\ UNCHANGED <<now, storeVars, uploads, res, axiosError, txRetired, reqFile>>
  /\ UNCHANGED <<clients, churnRecords, forecastReq, sentimentReq>>
  /\ UNCHANGED <<analytics, erp, axiosPosts, axiosResponse>>

\* response.data has no predictions array: predictions.map throws a TypeError
ForecastAIMalformed(r) ==
  /\ pc[r] = "forecast_ai"
  /\ Respond(r, 500, "TypeError")
  /\ UNCHANGED <<now, storeVars, uploads, axiosError, txRetired, reqFile>>
  /\ UNCHANGED <<analytics, erp, axiosPosts, axiosResponse>>

\* prisma.salesForecast.createMany and the 200 response
ForecastCreateMany(r) ==
  /\ pc[r] = "forecast_create"
  /\ Len(salesForecast) + Len(forecastRecords[r]) <= MaxForecasts
  /\ salesForecast' = CreateMany(salesForecast, forecastRecords[r])
  /\ Respond(r, 200, "success")
  /\ UNCHANGED <<now, client, order, churnPrediction, feedback, uploads>>
  /\ UNCHANGED <<axiosError, txRetired, reqFile>>
  /\ UNCHANGED <<analytics, erp, axiosPosts, axiosResponse>>

\* prisma.salesForecast.createMany throws: nothing is inserted
ForecastCreateFailed(r) ==
  /\ pc[r] = "forecast_create"
  /\ Respond(r, 500, "createMany failed")
  /\ UNCHANGED <<now, storeVars, uploads, axiosError, txRetired, reqFile>>
  /\ UNCHANGED <<analytics, erp, axiosPosts, axiosResponse>>

\* ------------------------------------------------------------ POST /churn
ChurnValidationFailed(r) ==
  /\ pc[r] = "idle"
  /\ Respond(r, 400, "Validation failed")
  /\ UNCHANGED <<now, storeVars, uploads, axiosError, txRetired, reqFile>>
  /\ UNCHANGED <<analytics, erp, axiosPosts, axiosResponse>>

\* prisma.client.findMany and the empty-set check
ChurnFindClients(r, clientIds) ==
  /\ pc[r] = "idle"
  /\ LET found == ChurnSubjects(clientIds) IN
       IF found = {}
       THEN /\ Respond(r, NotFoundStatus, "No clients found for analysis")
            /\ UNCHANGED <<axiosPosts, axiosResponse>>
       ELSE /\ pc' = [pc EXCEPT ![r] = "churn_ai"]
            /\ clients' = [clients EXCEPT ![r] = found]
            /\ AxiosPost(r)
            /\ UNCHANGED <<res, churnRecords, forecastReq, forecastRecords, sentimentReq>>
  /\ UNCHANGED <<now, storeVars, uploads, axiosError, txRetired, reqFile>>
  /\ UNCHANGED <<analytics, erp>>

\* makeAIRequest('/churn') throws
ChurnAIFailed(r, code, upstreamStatus, upstreamMessage) ==
  /\ pc[r] = "churn_ai"
  /\ MakeAIRequestThrows(r, code, upstreamStatus, upstreamMessage)
  /\ UNCHANGED <<now, storeVars, uploads, txRetired, reqFile>>
  /\ UNCHANGED <<analytics, erp>>

\* makeAIRequest('/churn') returns response.data; the handler maps it
ChurnAIReplied(r, predictions) ==
  /\ pc[r] = "churn_ai"
  /\ churnRecords' = [churnRecords EXCEPT ![r] = ToChurnRecords(predictions, now)]
  /\ pc' = [pc EXCEPT ![r] = "churn_tx"]
  /\ UNCHANGED <<now, storeVars, uploads, res, axiosError, txRetired, reqFile>>
  /\ UNCHANGED <<clients, forecastReq, forecastRecords, sentimentReq>>
  /\ UNCHANGED <<analytics, erp, axiosPosts, axiosResponse>>

\* response.data has no predictions array: predictions.map throws a TypeError
ChurnAIMalformed(r) ==
  /\ pc[r] = "churn_ai"
  /\ Respond(r, 500, "TypeError")
  /\ UNCHANGED <<now, storeVars, uploads, axiosError, txRetired, reqFile>>
  /\ UNCHANGED <<analytics, erp, axiosPosts, axiosResponse>>

\* tx.churnPrediction.updateMany inside the transaction
ChurnTxUpdateMany(r) ==
  /\ pc[r] = "churn_tx"
  /\ txRetired' = [txRetired EXCEPT ![r] =
                     UpdateManyTargets(churnPrediction, churnRecords[r])]
  /\ pc' = [pc EXCEPT ![r] = "churn_create"]
  /\ UNCHANGED <<now, storeVars, uploads, res, axiosError, reqFile, locals>>
  /\ UNCHANGED <<analytics, erp, axiosPosts, axiosResponse>>

\* tx.churnPrediction.createMany, the commit, and the 200 response
ChurnTxCreateMany(r) ==
  /\ pc[r] = "churn_create"
  /\ Len(churnPrediction) + Len(churnRecords[r]) <= MaxPredictions
  /\ churnPrediction' = TxCommitted(churnPrediction, txRetired[r], churnRecords[r])
  /\ Respond(r, 200, "success")
  /\ UNCHANGED <<now, client, order, salesForecast, feedback, uploads>>
  /\ UNCHANGED <<axiosError, txRetired, reqFile>>
  /\ UNCHANGED <<analytics, erp, axiosPosts, axiosResponse>>

\* a statement of the transaction, or its commit, throws: rollback
ChurnTxFailed(r) ==
  /\ pc[r] \in {"churn_tx", "churn_create"}
  /\ churnPrediction' = TxRolledBack(churnPrediction, txRetired[r])
  /\ Respond(r, 500, "transaction failed")
  /\ UNCHANGED <<now, client, order, salesForecast, feedback, uploads>>
  /\ UNCHANGED <<axiosError, txRetired, reqFile>>
  /\ UNCHANGED <<analytics, erp, axiosPosts, axiosResponse>>

\* -------------------------------------------------------------- POST /ocr
\* upload.single('document') found no file part: req.file is undefined
OcrNoFile(r) ==
  /\ pc[r] = "idle"
  /\ Respond(r, 400, "No document file provided")
  /\ UNCHANGED <<now, storeVars, uploads, axiosError, txRetired, reqFile>>
  /\ UNCHANGED <<analytics, erp, axiosPosts, axiosResponse>>

\* multer stored the file; fs.readFileSync throws; the catch block unlinks it
OcrReadFailed(r) ==
  /\ pc[r] = "idle"
  /\ reqFile' = [reqFile EXCEPT ![r] = TRUE]
  /\ uploads' = uploads \ {r}
  /\ Respond(r, 500, "readFileSync failed")
  /\ UNCHANGED <<now, storeVars, axiosError, txRetired>>
  /\ UNCHANGED <<analytics, erp, axiosPosts, axiosResponse>>

\* multer stored the file; the handler reads it and calls makeAIRequest('/ocr')
OcrStart(r) ==
  /\ pc[r] = "idle"
  /\ reqFile' = [reqFile EXCEPT ![r] = TRUE]
  /\ uploads' = uploads \cup {r}
  /\ pc' = [pc EXCEPT ![r] = "ocr_ai"]
  /\ AxiosPost(r)
  /\ UNCHANGED <<now, storeVars, res, axiosError, txRetired, locals>>
  /\ UNCHANGED <<analytics, erp>>

\* variant: the catch block leaves the file in place
OcrAIFailedNoCleanup(r, code, upstreamStatus, upstreamMessage) ==
  /\ pc[r] = "ocr_ai"
  /\ UNCHANGED uploads
  /\ MakeAIRequestThrows(r, code, upstreamStatus, upstreamMessage)
  /\ UNCHANGED <<now, storeVars, txRetired, reqFile>>
  /\ UNCHANGED <<analytics, erp>>

\* makeAIRequest('/ocr') throws; the catch block unlinks the file
OcrAIFailed(r, code, upstreamStatus, upstreamMessage) ==
  /\ pc[r] = "ocr_ai"
  /\ uploads' = uploads \ {r}
  /\ MakeAIRequestThrows(r, code, upstreamStatus, upstreamMessage)
  /\ UNCHANGED <<now, storeVars, txRetired, reqFile>>
  /\ UNCHANGED <<analytics, erp>>

\* makeAIRequest('/ocr') returns; fs.unlinkSync and the 200 response
OcrAIReplied(r) ==
  /\ pc[r] = "ocr_ai"
  /\ uploads' = uploads \ {r}
  /\ Respond(r, 200, "success")
  /\ UNCHANGED <<now, storeVars, axiosError, txRetired, reqFile>>
  /\ UNCHANGED <<analytics, erp, axiosPosts, axiosResponse>>

\* -------------------------------------------------------- POST /sentiment
SentimentValidationFailed(r) ==
  /\ pc[r] = "idle"
  /\ Respond(r, 400, "Validation failed")
  /\ UNCHANGED <<now, storeVars, uploads, axiosError, txRetired, reqFile>>
  /\ UNCHANGED <<analytics, erp, axiosPosts, axiosResponse>>

\* the handler calls makeAIRequest('/sentiment')
SentimentStart(r, feedbackId) ==
  /\ pc[r] = "idle"
  /\ sentimentReq' = [sentimentReq EXCEPT ![r].feedbackId = feedbackId]
  /\ pc' = [pc EXCEPT ![r] = "sentiment_ai"]
  /\ AxiosPost(r)
  /\ UNCHANGED <<now, storeVars, uploads, res, axiosError, txRetired, reqFile>>
  /\ UNCHANGED <<clients, churnRecords, forecastReq, forecastRecords>>
  /\ UNCHANGED <<analytics, erp>>

\* makeAIRequest('/sentiment') throws
SentimentAIFailed(r, code, upstreamStatus, upstreamMessage) ==
  /\ pc[r] = "sentiment_ai"
  /\ MakeAIRequestThrows(r, code, upstreamStatus, upstreamMessage)
  /\ UNCHANGED <<now, storeVars, uploads, txRetired, reqFile>>
  /\ UNCHANGED <<analytics, erp>>

\* makeAIRequest('/sentiment') returns; without a feedbackId the handler responds
SentimentAIReplied(r, label) ==
  /\ pc[r] = "sentiment_ai"
  /\ IF sentimentReq[r].feedbackId = "undefined"
     THEN Respond(r, 200, "success")
     ELSE /\ sentimentReq' = [sentimentReq EXCEPT ![r].sentiment = label]
          /\ pc' = [pc EXCEPT ![r] = "sentiment_update"]
          /\ UNCHANGED <<res, clients, churnRecords, forecastReq, forecastRecords>>
  /\ UNCHANGED <<now, storeVars, uploads, axiosError, txRetired, reqFile>>
  /\ UNCHANGED <<analytics, erp, axiosPosts, axiosResponse>>

\* prisma.feedback.update; it throws when no row has the id
SentimentUpdate(r) ==
  /\ pc[r] = "sentiment_update"
  /\ LET id == sentimentReq[r].feedbackId IN
       IF id \in FeedbackIds
       THEN /\ feedback' = [feedback EXCEPT ![id] =
                 [sentiment |-> StoredSentiment(sentimentReq[r].sentiment),
                  isProcessed |-> TRUE]]
            /\ Respond(r, 200, "success")
       ELSE /\ UNCHANGED feedback
            /\ Respond(r, 500, "Record to update not found")
  /\ UNCHANGED <<now, client, order, churnPrediction, salesForecast, uploads>>
  /\ UNCHANGED <<axiosError, txRetired, reqFile>>
  /\ UNCHANGED <<analytics, erp, axiosPosts, axiosResponse>>

\* ------------------------------------------- churn: feature extraction
SumAmounts(rows) ==
  LET sum[n \in 0 .. Len(rows)] ==
        IF n = 0 THEN 0 ELSE sum[n - 1] + rows[n].totalAmount
  IN sum[Len(rows)]

\* variant: no sentinel for a client without orders
FeatureVectorNoSentinel(client_id, orders, today) ==
  LET threeMonthsAgo == today - 90
      sixMonthsAgo == today - 180
      recentOrders == {i \in 1 .. Len(orders) : orders[i].orderDate >= threeMonthsAgo}
      olderOrders == {i \in 1 .. Len(orders) :
                        /\ orders[i].orderDate >= sixMonthsAgo
                        /\ orders[i].orderDate < threeMonthsAgo}
  IN [client_id |-> client_id,
      total_orders |-> Len(orders),
      recent_orders_3m |-> Cardinality(recentOrders),
      older_orders_3m |-> Cardinality(olderOrders),
      avg_order_value |-> IF Len(orders) > 0
                          THEN (SumAmounts(orders) * 100) \div Len(orders) ELSE 0,
      days_since_last_order |-> IF Len(orders) > 0
                                THEN today - orders[1].orderDate ELSE 0]

\* one element of clients.map(...): the fields derived from client.orders, which
\* findMany returns by orderDate descending.  avg_order_value is kept in
\* hundredths, truncated.
FeatureVector(client_id, orders, today) ==
  LET threeMonthsAgo == today - 90
      sixMonthsAgo == today - 180
      recentOrders == {i \in 1 .. Len(orders) : orders[i].orderDate >= threeMonthsAgo}
      olderOrders == {i \in 1 .. Len(orders) :
                        /\ orders[i].orderDate >= sixMonthsAgo
                        /\ orders[i].orderDate < threeMonthsAgo}
  IN [client_id |-> client_id,
      total_orders |-> Len(orders),
      recent_orders_3m |-> Cardinality(recentOrders),
      older_orders_3m |-> Cardinality(olderOrders),
      avg_order_value |-> IF Len(orders) > 0
                          THEN (SumAmounts(orders) * 100) \div Len(orders) ELSE 0,
      days_since_last_order |-> IF Len(orders) > 0
                                THEN today - orders[1].orderDate ELSE 999]

\* orderBy: { orderDate: 'desc' }
SortedDesc(rows) ==
  \A i \in 1 .. Len(rows) - 1 : rows[i].orderDate >= rows[i + 1].orderDate

OrderRowSeqs ==
  {rows \in UNION {[1 .. n -> OrderRowInputs] : n \in 0 .. MaxRows} : SortedDesc(rows)}

\* the store holds any orders of the client
InitRows == \E rows \in OrderRowSeqs : InitOver(NoOrders, rows)

\* the churn handler builds the feature vector of a client it found
ExtractFeatures(c) ==
  /\ clientFeatures' = FeatureVector(c, orderRows, Today)
  /\ UNCHANGED <<now, storeVars, uploads, pc, res, axiosError, txRetired, reqFile, locals, erp>>
  /\ UNCHANGED <<axiosPosts, axiosResponse, orderRows, salesTrends, topClients, profitability>>

\* SpecFeatures: feature extraction over any order history of a client.
NextFeatures == \E c \in Clients : ExtractFeatures(c)

SpecFeatures == InitRows /\ [][NextFeatures]_vars

\* ------------------------------------------- GET /analytics/sales-trends
\* the switch on period
GroupBy(period) ==
  IF period = "daily" THEN "DATE(order_date)"
  ELSE IF period = "weekly" THEN "DATE_TRUNC('week', order_date)"
  ELSE "DATE_TRUNC('month', order_date)"

\* prisma.$queryRaw as a tagged template: every ${...} is sent as a bound
\* parameter, never as SQL text.  The WHERE parameters are 'TRUE' without a
\* date and the text of a comparison with one, which is no boolean; the
\* GROUP BY parameter is one constant, so all rows fall into one group whose
\* period column is the text of groupBy.
QueryRaw(rows, groupBy, startDate, endDate, outcome) ==
  IF outcome = "rejected" \/ startDate # "undefined" \/ endDate # "undefined"
  THEN [status |-> 500, trends |-> << >>]
  ELSE [status |-> 200,
        trends |-> IF Len(rows) = 0 THEN << >>
                   ELSE << [period |-> groupBy,
                            order_count |-> Len(rows),
                            total_revenue |-> SumAmounts(rows),
                            avg_order_value |->
                              (SumAmounts(rows) * 100) \div Len(rows)] >>]

\* the handler: the response with the period and the filter it answered
SalesTrends(period, startDate, endDate, outcome) ==
  /\ LET asked == IF period = "undefined" THEN "monthly" ELSE period
         result == QueryRaw(orderRows, GroupBy(asked), startDate, endDate, outcome)
     IN salesTrends' = [status |-> result.status, period |-> asked,
                        startDate |-> startDate, endDate |-> endDate,
                        trends |-> result.trends]
  /\ UNCHANGED <<now, storeVars, uploads, pc, res, axiosError, txRetired, reqFile, locals, erp>>
  /\ UNCHANGED <<axiosPosts, axiosResponse, orderRows, clientFeatures, topClients, profitability>>

\* SpecAnalytics: the analytics queries over any stored orders.
NextAnalytics ==
  \E period \in TrendPeriods, startDate \in DateInputs, endDate \in DateInputs,
     outcome \in QueryRawOutcomes : SalesTrends(period, startDate, endDate, outcome)

SpecAnalytics == InitRows /\ [][NextAnalytics]_vars

\* --------------------------- GET /analytics/top-clients, /profitability
\* where.orderDate = { gte: new Date(startDate), lte: new Date(endDate) }
DateFilter(rows, startDate, endDate) ==
  SelectSeq(rows, LAMBDA row :
    /\ (startDate # NoDate => row.orderDate >= startDate)
    /\ (endDate # NoDate => row.orderDate <= endDate))

SumField(rows, field) ==
  LET sum[n \in 0 .. Len(rows)] ==
        IF n = 0 THEN 0 ELSE sum[n - 1] + rows[n][field]
  IN sum[Len(rows)]

\* groupBy({ by: [by], _sum, _count }): one group per value of the column
Groups(rows, by, sumField) ==
  {LET mine == SelectSeq(rows, LAMBDA row : row[by] = k)
   IN [key |-> k,
       sum |-> SumField(mine, sumField),
       quantity |-> SumField(mine, "quantity"),
       count |-> Len(mine)] :
     k \in {rows[i][by] : i \in 1 .. Len(rows)}}

\* orderBy: { _sum: { ...: 'desc' } }: the orders the database may return the
\* groups in (groups with equal sums come in any order)
OrderedDesc(groups) ==
  {seq \in [1 .. Cardinality(groups) -> groups] :
     /\ \A i, j \in DOMAIN seq : i # j => seq[i] # seq[j]
     /\ \A i \in 1 .. Len(seq) - 1 : seq[i].sum >= seq[i + 1].sum}

\* take: n
Take(seq, n) == SubSeq(seq, 1, IF n < Len(seq) THEN n ELSE Len(seq))

\* parseInt of a query parameter; NaN for one that is absent
NaN == -1
ParseInt(text) ==
  IF text = "0" THEN 0 ELSE IF text = "1" THEN 1 ELSE IF text = "2" THEN 2 ELSE NaN

DefaultLimit == 10
\* parseInt(req.query.limit) || 10: NaN and 0 are falsy
LimitOrDefault(text) ==
  IF ParseInt(text) \in {NaN, 0} THEN DefaultLimit ELSE ParseInt(text)

\* one element of topClients.map(...) / clientProfitability.map(...);
\* averageOrderValue is kept in hundredths, truncated
ClientGroup(item) ==
  [client |-> item.key,
   totalRevenue |-> item.sum,
   orderCount |-> item.count,
   averageOrderValue |-> IF item.count > 0 THEN (item.sum * 100) \div item.count ELSE 0]

\* the handler of GET /analytics/top-clients; `ordered` is the order the
\* database returned the groups in
TopClients(limit, startDate, endDate, ordered) ==
  /\ ordered \in OrderedDesc(Groups(DateFilter(orderRows, startDate, endDate),
                                     "clientId", "totalAmount"))
  /\ LET taken == Take(ordered, LimitOrDefault(limit))
     IN topClients' = [status |-> 200, limit |-> limit,
                       startDate |-> startDate, endDate |-> endDate,
                       topClients |-> [i \in 1 .. Len(taken) |-> ClientGroup(taken[i])]]
  /\ UNCHANGED <<now, storeVars, uploads, pc, res, axiosError, txRetired, reqFile, locals, erp>>
  /\ UNCHANGED <<axiosPosts, axiosResponse, orderRows, clientFeatures, salesTrends,
                 profitability>>

\* the stored orders of a ranking route
RankedRowSeqs(inputs) ==
  {rows \in UNION {[1 .. n -> inputs] : n \in 0 .. MaxRows} : SortedDesc(rows)}

InitTopClients == \E rows \in RankedRowSeqs(TopClientRowInputs) : InitOver(NoOrders, rows)

\* SpecTopClients: the top-clients ranking over any stored orders.
NextTopClients ==
  \E limit \in LimitInputs, startDate \in StartDates, endDate \in EndDates :
    \E ordered \in OrderedDesc(Groups(DateFilter(orderRows, startDate, endDate),
                                       "clientId", "totalAmount")) :
      TopClients(limit, startDate, endDate, ordered)

SpecTopClients == InitTopClients /\ [][NextTopClients]_vars

ProfitabilityTake == 20

\* profitMargin of one product group: a JavaScript number, kept as the exact
\* fraction num / den, or the value the division by zero gives
ProfitMargin(productFound, totalRevenue, totalQuantity, price) ==
  LET averageIsZero == ~(totalQuantity > 0) \/ totalRevenue = 0
  IN IF ~productFound THEN [kind |-> "number", num |-> 0, den |-> 1]
     ELSE IF ~averageIsZero
       THEN [kind |-> "number",
             num |-> (totalRevenue - price * totalQuantity) * 100,
             den |-> totalRevenue]
     ELSE IF price > 0 THEN [kind |-> "-Infinity", num |-> 0, den |-> 1]
     ELSE [kind |-> "NaN", num |-> 0, den |-> 1]

\* one element of productProfitabilityWithDetails
ProductGroup(item) ==
  [productId |-> item.key,
   totalRevenue |-> item.sum,
   totalQuantity |-> item.quantity,
   profitMargin |-> ProfitMargin(item.key \in DOMAIN CatalogPrice, item.sum,
                                 item.quantity, CatalogPrice[item.key])]

\* the handler of GET /analytics/profitability
Profitability(startDate, endDate, byProduct, byClient) ==
  /\ byProduct \in OrderedDesc(Groups(DateFilter(orderRows, startDate, endDate),
                                       "productId", "totalPrice"))
  /\ byClient \in OrderedDesc(Groups(DateFilter(orderRows, startDate, endDate),
                                      "clientId", "totalAmount"))
  /\ LET products == Take(byProduct, ProfitabilityTake)
         clientGroups == Take(byClient, ProfitabilityTake)
     IN profitability' =
          [status |-> 200, startDate |-> startDate, endDate |-> endDate,
           productProfitability |->
             [i \in 1 .. Len(products) |-> ProductGroup(products[i])],
           clientProfitability |->
             [i \in 1 .. Len(clientGroups) |-> ClientGroup(clientGroups[i])]]
  /\ UNCHANGED <<now, storeVars, uploads, pc, res, axiosError, txRetired, reqFile, locals, erp>>
  /\ UNCHANGED <<axiosPosts, axiosResponse, orderRows, clientFeatures, salesTrends,
                 topClients>>

InitProfitability ==
  \E rows \in RankedRowSeqs(ProfitabilityRowInputs) : InitOver(NoOrders, rows)

\* SpecProfitability: the profitability breakdowns over any stored orders.
NextProfitability ==
  \E startDate \in StartDates, endDate \in EndDates :
    \E byProduct \in OrderedDesc(Groups(DateFilter(orderRows, startDate, endDate),
                                         "productId", "totalPrice")),
       byClient \in OrderedDesc(Groups(DateFilter(orderRows, startDate, endDate),
                                        "clientId", "totalAmount")) :
      Profitability(startDate, endDate, byProduct, byClient)

SpecProfitability == InitProfitability /\ [][NextProfitability]_vars

\* ------------------------------------------------- GET /analytics/alerts
AlertTake == 10
FailedDeliveryDays == 7

\* prisma.invoice.findMany({ where: { status: 'SENT', dueDate: { lt: new Date() } }, take: 10 })
OverdueInvoices(table, today) ==
  Take(SelectSeq(table, LAMBDA row : row.status = "SENT" /\ row.dueDate < today),
       AlertTake)

\* prisma.deliverySchedule.findMany({ where: { status: 'FAILED', scheduledDate: { gte: now - 7d } } })
FailedDeliveries(table, today) ==
  SelectSeq(table, LAMBDA row :
    row.status = "FAILED" /\ row.scheduledDate >= today - FailedDeliveryDays)

\* prisma.churnPrediction.findMany({ where: { riskLevel: 'HIGH', isActive: true }, take: 10 })
HighChurnRiskClients(table) ==
  Take(SelectSeq(table, LAMBDA row : row.riskLevel = "HIGH" /\ row.isActive),
       AlertTake)

\* if (found.length > 0) alerts.push({ type, severity, count, ... })
PushAlert(list, type, severity, found) ==
  IF Len(found) > 0
  THEN Append(list, [type |-> type, severity |-> severity, count |-> Len(found)])
  ELSE list

\* the `alerts` array once the three sources are evaluated
AlertList(invoices, deliveries, predictions, today) ==
  LET first == PushAlert(<< >>, "OVERDUE_INVOICES", "HIGH",
                         OverdueInvoices(invoices, today))
      second == PushAlert(first, "FAILED_DELIVERIES", "MEDIUM",
                          FailedDeliveries(deliveries, today))
  IN PushAlert(second, "HIGH_CHURN_RISK", "HIGH", HighChurnRiskClients(predictions))

\* variant: the handler marks the predictions it reported
AlertsAcknowledging ==
  /\ alerts' = [status |-> 200,
                alerts |-> AlertList(invoice, deliverySchedule, churnPrediction, Today),
                totalAlerts |-> Len(AlertList(invoice, deliverySchedule,
                                              churnPrediction, Today))]
  /\ churnPrediction' =
       [i \in DOMAIN churnPrediction |->
          IF churnPrediction[i].riskLevel = "HIGH"
          THEN [churnPrediction[i] EXCEPT !.isActive = FALSE]
          ELSE churnPrediction[i]]
  /\ UNCHANGED <<client, order, salesForecast, feedback>>
  /\ UNCHANGED <<now, uploads, pc, res, axiosError, txRetired, reqFile, locals>>
  /\ UNCHANGED <<analytics, axiosPosts, axiosResponse>>
  /\ UNCHANGED <<invoice, deliverySchedule, clientRows, product, crudReq>>

\* the handler of GET /analytics/alerts. Its three findMany calls are three
\* awaits; the invoice and delivery tables have no writer in the routes at
\* hand, so the three reads see the store of the last one
Alerts ==
  /\ alerts' = [status |-> 200,
                alerts |-> AlertList(invoice, deliverySchedule, churnPrediction, Today),
                totalAlerts |-> Len(AlertList(invoice, deliverySchedule,
                                              churnPrediction, Today))]
  /\ UNCHANGED <<now, storeVars, uploads, pc, res, axiosError, txRetired, reqFile, locals>>
  /\ UNCHANGED <<analytics, axiosPosts, axiosResponse>>
  /\ UNCHANGED <<invoice, deliverySchedule, clientRows, product, crudReq>>

BillingSeqs(inputs) == UNION {[1 .. n -> inputs] : n \in 0 .. MaxBilling}

InitAlerts ==
  \E invoices \in BillingSeqs(InvoiceInputs), deliveries \in BillingSeqs(DeliveryInputs) :
    InitStore(NoOrders, << >>, invoices, deliveries, SeededClientRows)

\* SpecAlerts: alert queries between churn runs (one at a time) over any
\* invoices and deliveries.
NextAlerts ==
  \/ ChurnFindClients(1, {})
  \/ \E p \in PredictionSeqs(AlertScores, {"undefined"}, 1) : ChurnAIReplied(1, p)
  \/ ChurnTxUpdateMany(1)
  \/ ChurnTxCreateMany(1)
  \/ NextRequest(1)
  \/ Alerts

SpecAlerts == InitAlerts /\ [][NextAlerts]_vars

\* ----------------------------------------------- POST /clients, PUT /clients/:id
\* the response, and the end of the request in the slot
CrudRespond(r, status, message) ==
  /\ Respond(r, status, message)
  /\ crudReq' = [crudReq EXCEPT ![r] = NoCrudReq]

\* what the client, product and order handlers never touch
CrudFrame ==
  /\ UNCHANGED <<now, client, order, churnPrediction, salesForecast, feedback, uploads>>
  /\ UNCHANGED <<axiosError, txRetired, reqFile, axiosPosts, axiosResponse>>
  /\ UNCHANGED <<clientFeatures, salesTrends, topClients, profitability>>
  /\ UNCHANGED <<invoice, alerts>>

\* the slot moves on to its next await with the request's values
CrudAwait(r, at, req) ==
  /\ pc' = [pc EXCEPT ![r] = at]
  /\ crudReq' = [crudReq EXCEPT ![r] = req]
  /\ UNCHANGED <<res, locals>>

\* id of a newly created row: ids are handed out in sequence
FreshId(table) ==
  LET ids == {table[i].id : i \in DOMAIN table}
  IN IF ids = {} THEN 1 ELSE 1 + (CHOOSE m \in ids : \A n \in ids : n <= m)

\* the duplicate checks: findFirst({ where: { OR: [{ phone }, { businessId }] } }),
\* each condition only for a value the body gives; `self` is the id the update
\* route excludes (0 in the create route)
DuplicateClient(table, self, phone, businessId) ==
  \E i \in DOMAIN table :
    /\ table[i].id # self
    /\ \/ (phone # "undefined" /\ table[i].phone = phone)
       \/ (businessId # "undefined" /\ table[i].businessId = businessId)

\* validationResult(req) is not empty
ClientValidationFailed(r) ==
  /\ pc[r] = "idle"
  /\ CrudRespond(r, 400, "Validation failed")
  /\ UNCHANGED <<orderRows, deliverySchedule, clientRows, product>>
  /\ CrudFrame

\* POST /clients up to prisma.client.create: the duplicate check
ClientCreateFindFirst(r, phone, businessId) ==
  /\ pc[r] = "idle"
  /\ IF DuplicateClient(clientRows, 0, phone, businessId)
     THEN CrudRespond(r, 400, "Client with this phone number or business ID already exists")
     ELSE CrudAwait(r, "client_create",
                    [route |-> "client_create", phone |-> phone, businessId |-> businessId])
  /\ UNCHANGED <<orderRows, deliverySchedule, clientRows, product>>
  /\ CrudFrame

\* prisma.client.create resolves, and the 201 response
ClientCreate(r) ==
  /\ pc[r] = "client_create"
  /\ Len(clientRows) < MaxClientRows
  /\ clientRows' = Append(clientRows,
       [id |-> FreshId(clientRows),
        phone |-> crudReq[r].phone,
        businessId |-> IF crudReq[r].businessId = "undefined" THEN "null"
                       ELSE crudReq[r].businessId])
  /\ CrudRespond(r, 201, "success")
  /\ UNCHANGED <<orderRows, deliverySchedule, product>>
  /\ CrudFrame

\* prisma.client.create or prisma.client.update rejects: next(error)
ClientWriteFailed(r) ==
  /\ pc[r] \in {"client_create", "client_update"}
  /\ CrudRespond(r, 500, "store error")
  /\ UNCHANGED <<orderRows, deliverySchedule, clientRows, product>>
  /\ CrudFrame

\* PUT /clients/:id: prisma.client.findUnique
ClientUpdateFindUnique(r, id, phone, businessId) ==
  /\ pc[r] = "idle"
  /\ IF ~\E i \in DOMAIN clientRows : clientRows[i].id = id
     THEN CrudRespond(r, NotFoundStatus, "Client not found")
     ELSE CrudAwait(r, IF phone # "undefined" \/ businessId # "undefined"
                       THEN "client_duplicate" ELSE "client_update",
                    [route |-> "client_update", id |-> id, phone |-> phone,
                     businessId |-> businessId])
  /\ UNCHANGED <<orderRows, deliverySchedule, clientRows, product>>
  /\ CrudFrame

\* PUT /clients/:id: the duplicate check, excluding the client itself
ClientUpdateFindFirst(r) ==
  /\ pc[r] = "client_duplicate"
  /\ IF DuplicateClient(clientRows, crudReq[r].id, crudReq[r].phone, crudReq[r].businessId)
     THEN CrudRespond(r, 400, "Client with this phone number or business ID already exists")
     ELSE CrudAwait(r, "client_update", crudReq[r])
  /\ UNCHANGED <<orderRows, deliverySchedule, clientRows, product>>
  /\ CrudFrame

\* prisma.client.update({ where: { id }, data: updateData }) resolves
ClientUpdate(r) ==
  /\ pc[r] = "client_update"
  /\ \E i \in DOMAIN clientRows : clientRows[i].id = crudReq[r].id
  /\ clientRows' =
       [i \in DOMAIN clientRows |->
          IF clientRows[i].id # crudReq[r].id THEN clientRows[i]
          ELSE [id |-> clientRows[i].id,
                phone |-> IF crudReq[r].phone = "undefined" THEN clientRows[i].phone
                          ELSE crudReq[r].phone,
                businessId |-> IF crudReq[r].businessId = "undefined"
                               THEN clientRows[i].businessId
                               ELSE crudReq[r].businessId]]
  /\ CrudRespond(r, 200, "success")
  /\ UNCHANGED <<orderRows, deliverySchedule, product>>
  /\ CrudFrame

InitClients == InitStore(NoOrders, << >>, << >>, << >>, << >>)

\* SpecClients: client create and update requests in flight together.
NextClients ==
  \E r \in Slots :
    \/ ClientValidationFailed(r)
    \/ \E phone \in Phones, businessId \in BusinessIds :
         ClientCreateFindFirst(r, phone, businessId)
    \/ ClientCreate(r)
    \/ ClientWriteFailed(r)
    \/ \E id \in ClientIdInputs, phone \in Phones \cup {"undefined"},
          businessId \in BusinessIds :
         ClientUpdateFindUnique(r, id, phone, businessId)
    \/ ClientUpdateFindFirst(r)
    \/ ClientUpdate(r)
    \/ NextRequest(r)

SpecClients == InitClients /\ [][NextClients]_vars

\* ---------------------------------------------------------- POST /orders
\* req.body.items, as the productId of each item
ItemSeqs == UNION {[1 .. n -> OrderProductInputs] : n \in 1 .. MaxItems}

OrderValidationFailed(r) ==
  /\ pc[r] = "idle"
  /\ CrudRespond(r, 400, "Validation failed")
  /\ UNCHANGED <<orderRows, deliverySchedule, clientRows, product>>
  /\ CrudFrame

\* prisma.client.findUnique({ where: { id: clientId } })
OrderFindClient(r, clientId, items) ==
  /\ pc[r] = "idle"
  /\ IF ~\E i \in DOMAIN clientRows : clientRows[i].id = clientId
     THEN CrudRespond(r, NotFoundStatus, "Client not found")
     ELSE CrudAwait(r, "order_product",
                    [route |-> "order_create", clientId |-> clientId,
                     items |-> items, verified |-> 0])
  /\ UNCHANGED <<orderRows, deliverySchedule, clientRows, product>>
  /\ CrudFrame

\* one turn of the loop: prisma.product.findUnique for the next item
OrderFindProduct(r) ==
  /\ pc[r] = "order_product"
  /\ LET req == crudReq[r]
         item == req.items[req.verified + 1]
     IN IF item \notin product
        THEN CrudRespond(r, NotFoundStatus, "Product not found")
        ELSE CrudAwait(r, IF req.verified + 1 = Len(req.items)
                          THEN "order_tx" ELSE "order_product",
                       [req EXCEPT !.verified = @ + 1])
  /\ UNCHANGED <<orderRows, deliverySchedule, clientRows, product>>
  /\ CrudFrame

\* tx.order.create with its nested orderItems, inside the transaction: nothing
\* is committed yet
OrderTxCreate(r) ==
  /\ pc[r] = "order_tx"
  /\ CrudAwait(r, "order_schedule", crudReq[r])
  /\ UNCHANGED <<orderRows, deliverySchedule, clientRows, product>>
  /\ CrudFrame

\* the order row with its items, as tx.order.create writes it
NewOrder(table, req) ==
  [id |-> Len(table) + 1, clientId |-> req.clientId, orderDate |-> Today,
   items |-> req.items]

\* the row tx.deliverySchedule.create writes: scheduled for the next day
NewSchedule(newOrder) ==
  [orderId |-> newOrder.id, clientId |-> newOrder.clientId,
   scheduledDate |-> newOrder.orderDate + 1]

\* variant: the order is created outside the transaction and stays when the
\* schedule cannot be created
OrderRolledBackPartial(table, req, at) ==
  IF at = "order_schedule" THEN Append(table, NewOrder(table, req)) ELSE table

\* the order table once the $transaction callback has thrown at `at`
OrderRolledBack(table, req, at) == table

\* tx.deliverySchedule.create, the commit, and the 201 response
OrderTxCommit(r) ==
  /\ pc[r] = "order_schedule"
  /\ Len(orderRows) < MaxRows
  /\ LET newOrder == NewOrder(orderRows, crudReq[r])
     IN /\ orderRows' = Append(orderRows, newOrder)
        /\ deliverySchedule' = Append(deliverySchedule, NewSchedule(newOrder))
  /\ CrudRespond(r, 201, "success")
  /\ UNCHANGED <<clientRows, product>>
  /\ CrudFrame

\* a statement of the transaction, or its commit, throws: rollback
OrderTxFailed(r) ==
  /\ pc[r] \in {"order_tx", "order_schedule"}
  /\ orderRows' = OrderRolledBack(orderRows, crudReq[r], pc[r])
  /\ CrudRespond(r, 500, "transaction failed")
  /\ UNCHANGED <<deliverySchedule, clientRows, product>>
  /\ CrudFrame

\* ------------------------------------ DELETE /clients/:id, /products/:id
\* authorize(...roles): req.user is set by authenticate
Authorize(roles, role) == role \in roles

\* authorize('ADMIN', 'MANAGER'), then prisma.client.findUnique
ClientDeleteFindUnique(r, role, id) ==
  /\ pc[r] = "idle"
  /\ IF ~Authorize({"ADMIN", "MANAGER"}, role)
     THEN CrudRespond(r, 403, "Insufficient permissions")
     ELSE IF ~\E i \in DOMAIN clientRows : clientRows[i].id = id
     THEN CrudRespond(r, NotFoundStatus, "Client not found")
     ELSE CrudAwait(r, "client_count",
                    [route |-> "client_delete", role |-> role, id |-> id])
  /\ UNCHANGED <<orderRows, deliverySchedule, clientRows, product>>
  /\ CrudFrame

\* prisma.order.count({ where: { clientId: id } })
ClientDeleteCount(r) ==
  /\ pc[r] = "client_count"
  /\ IF \E i \in DOMAIN orderRows : orderRows[i].clientId = crudReq[r].id
     THEN CrudRespond(r, 400, "Cannot delete client with existing orders")
     ELSE CrudAwait(r, "client_delete", crudReq[r])
  /\ UNCHANGED <<orderRows, deliverySchedule, clientRows, product>>
  /\ CrudFrame

\* prisma.client.delete({ where: { id } }) resolves
ClientDelete(r) ==
  /\ pc[r] = "client_delete"
  /\ \E i \in DOMAIN clientRows : clientRows[i].id = crudReq[r].id
  /\ clientRows' = SelectSeq(clientRows, LAMBDA row : row.id # crudReq[r].id)
  /\ CrudRespond(r, 200, "Client deleted successfully")
  /\ UNCHANGED <<orderRows, deliverySchedule, product>>
  /\ CrudFrame

\* DELETE /products/:id has no authorize middleware: prisma.product.findUnique
ProductDeleteFindUnique(r, role, id) ==
  /\ pc[r] = "idle"
  /\ IF id \notin product
     THEN CrudRespond(r, NotFoundStatus, "Product not found")
     ELSE CrudAwait(r, "product_count",
                    [route |-> "product_delete", role |-> role, id |-> id])
  /\ UNCHANGED <<orderRows, deliverySchedule, clientRows, product>>
  /\ CrudFrame

\* prisma.orderItem.count({ where: { productId: id } })
ProductDeleteCount(r) ==
  /\ pc[r] = "product_count"
  /\ IF \E i \in DOMAIN orderRows :
          \E k \in DOMAIN orderRows[i].items : orderRows[i].items[k] = crudReq[r].id
     THEN CrudRespond(r, 400, "Cannot delete product with existing orders")
     ELSE CrudAwait(r, "product_media", crudReq[r])
  /\ UNCHANGED <<orderRows, deliverySchedule, clientRows, product>>
  /\ CrudFrame

\* prisma.productMedia.findMany and the removal of the media files
ProductDeleteMedia(r) ==
  /\ pc[r] = "product_media"
  /\ CrudAwait(r, "product_delete", crudReq[r])
  /\ UNCHANGED <<orderRows, deliverySchedule, clientRows, product>>
  /\ CrudFrame

\* prisma.product.delete({ where: { id } }) resolves
ProductDelete(r) ==
  /\ pc[r] = "product_delete"
  /\ crudReq[r].id \in product
  /\ product' = product \ {crudReq[r].id}
  /\ CrudRespond(r, 200, "Product deleted successfully")
  /\ UNCHANGED <<orderRows, deliverySchedule, clientRows>>
  /\ CrudFrame

\* a query or the delete statement rejects: next(error)
DeleteFailed(r) ==
  /\ pc[r] \in {"client_count", "client_delete", "product_count", "product_media",
                "product_delete"}
  /\ CrudRespond(r, 500, "store error")
  /\ UNCHANGED <<orderRows, deliverySchedule, clientRows, product>>
  /\ CrudFrame

\* SpecOrders: order creation and the delete routes in flight together.
NextOrders ==
  \E r \in Slots :
    \/ OrderValidationFailed(r)
    \/ \E clientId \in OrderClientInputs, items \in ItemSeqs :
         OrderFindClient(r, clientId, items)
    \/ OrderFindProduct(r)
    \/ OrderTxCreate(r)
    \/ OrderTxCommit(r)
    \/ OrderTxFailed(r)
    \/ \E role \in Roles, id \in DeleteClientInputs : ClientDeleteFindUnique(r, role, id)
    \/ ClientDeleteCount(r)
    \/ ClientDelete(r)
    \/ \E role \in Roles, id \in DeleteProductInputs : ProductDeleteFindUnique(r, role, id)
    \/ ProductDeleteCount(r)
    \/ ProductDeleteMedia(r)
    \/ ProductDelete(r)
    \/ DeleteFailed(r)
    \/ NextRequest(r)

SpecOrders == Init /\ [][NextOrders]_vars

\* ---------------------------------------------------------------------
\* SpecChurn: two churn requests in flight over the same clients.
NextChurn ==
  \/ \E r \in Slots, clientIds \in SUBSET Clients : ChurnFindClients(r, clientIds)
  \/ \E r \in Slots : ChurnAIFailed(r, "ECONNREFUSED", 500, "undefined")
  \/ \E r \in Slots, p \in PredictionSeqs(ScoreSamples, {"undefined"}, MaxReplyLen) :
       ChurnAIReplied(r, p)
  \/ \E r \in Slots : ChurnTxUpdateMany(r)
  \/ \E r \in Slots : ChurnTxCreateMany(r)
  \/ \E r \in Slots : ChurnTxFailed(r)
  \/ \E r \in Slots : NextRequest(r)

SpecChurn == Init /\ [][NextChurn]_vars

\* SpecChurnSeq: churn requests one after the other, while the clock advances.
NextChurnSeq ==
  \/ Tick
  \/ \E clientIds \in SUBSET Clients : ChurnFindClients(1, clientIds)
  \/ ChurnAIFailed(1, "ECONNREFUSED", 500, "undefined")
  \/ \E p \in PredictionSeqs(ScoreSamples, {"undefined"}, MaxReplyLen) : ChurnAIReplied(1, p)
  \/ ChurnTxUpdateMany(1)
  \/ ChurnTxCreateMany(1)
  \/ ChurnTxFailed(1)
  \/ NextRequest(1)

SpecChurnSeq == Init /\ [][NextChurnSeq]_vars

\* SpecChurnOnce: one churn request from its start to its response, over any
\* client statuses, the upstream returning any score in [0,1].
NextChurnOnce ==
  \/ Tick
  \/ \E c \in Clients, s \in ClientStatuses : UpdateClientStatus(c, s)
  \/ ChurnValidationFailed(1)
  \/ \E clientIds \in SUBSET Clients : ChurnFindClients(1, clientIds)
  \/ \E code \in AxiosErrorCodes, st \in UpstreamStatuses, m \in UpstreamMessages :
       ChurnAIFailed(1, code, st, m)
  \/ \E p \in PredictionSeqs(AllScores, RiskFactorInputs, 1) : ChurnAIReplied(1, p)
  \/ ChurnAIMalformed(1)
  \/ ChurnTxUpdateMany(1)
  \/ ChurnTxCreateMany(1)
  \/ ChurnTxFailed(1)

SpecChurnOnce == Init /\ [][NextChurnOnce]_vars

\* SpecForecast: forecast requests, one at a time, over a growing and ageing
\* order table.
NextForecast ==
  \/ \E p \in OrderInputs : OrderCreate(p[1], p[2])
  \/ \E c \in Clients, a \in OrderAges : TimePasses(c, a)
  \/ ForecastValidationFailed(1)
  \/ \E clientId \in Clients \cup {"null"} : ForecastFindOrders(1, clientId, "monthly")
  \/ ForecastAIFailed(1, "ECONNREFUSED", 500, "undefined")
  \/ \E p \in ForecastSeqs({"d1"}, {0}, MaxReplyLen) : ForecastAIReplied(1, p)
  \/ ForecastCreateMany(1)
  \/ ForecastCreateFailed(1)
  \/ NextRequest(1)

SpecForecast == Init /\ [][NextForecast]_vars

\* Spec: the four prediction calls, one request at a time, every gateway
\* outcome; the order table already holds enough history for client c1.
\* Confidence of a forecast point is scaled by 100; 0 stands for an absent one.
SeededOrders == [NoOrders EXCEPT !["c1"]["window"] = MinHistory]

InitSeeded == InitWith(SeededOrders)

Next ==
  \/ ForecastValidationFailed(1)
  \/ \E clientId \in Clients \cup {"null"} : ForecastFindOrders(1, clientId, "monthly")
  \/ \E code \in AxiosErrorCodes, st \in UpstreamStatuses, m \in UpstreamMessages :
       ForecastAIFailed(1, code, st, m)
  \/ \E p \in ForecastSeqs({"d1"}, {0}, MaxReplyLen) : ForecastAIReplied(1, p)
  \/ ForecastAIMalformed(1)
  \/ ForecastCreateMany(1)
  \/ ForecastCreateFailed(1)
  \/ ChurnValidationFailed(1)
  \/ \E clientIds \in SUBSET Clients : ChurnFindClients(1, clientIds)
  \/ \E code \in AxiosErrorCodes, st \in UpstreamStatuses, m \in UpstreamMessages :
       ChurnAIFailed(1, code, st, m)
  \/ \E p \in PredictionSeqs(ScoreSamples, {"undefined"}, MaxReplyLen) : ChurnAIReplied(1, p)
  \/ ChurnAIMalformed(1)
  \/ ChurnTxUpdateMany(1)
  \/ ChurnTxCreateMany(1)
  \/ ChurnTxFailed(1)
  \/ OcrNoFile(1)
  \/ OcrReadFailed(1)
  \/ OcrStart(1)
  \/ \E code \in AxiosErrorCodes, st \in UpstreamStatuses, m \in UpstreamMessages :
       OcrAIFailed(1, code, st, m)
  \/ OcrAIReplied(1)
  \/ SentimentValidationFailed(1)
  \/ \E id \in FeedbackIdInputs : SentimentStart(1, id)
  \/ \E code \in AxiosErrorCodes, st \in UpstreamStatuses, m \in UpstreamMessages :
       SentimentAIFailed(1, code, st, m)
  \/ \E label \in SentimentLabels : SentimentAIReplied(1, label)
  \/ SentimentUpdate(1)
  \/ NextRequest(1)

Spec == InitSeeded /\ [][Next]_vars

\* =====================================================================
\* Properties
\* =====================================================================
Row(i) == churnPrediction[i]
RowIds == 1 .. Len(churnPrediction)
ActiveRows(table, c) ==
  {i \in 1 .. Len(table) : table[i].clientId = c /\ table[i].isActive}

\* C1: in every reachable state each client has at most one churnPrediction
\* row with isActive = true.
C1_AtMostOneActive ==
  \A c \in Clients : Cardinality(ActiveRows(churnPrediction, c)) <= 1

\* C2: when a churn run responds 200, every client the run selected and sent
\* to the gateway has exactly one row with isActive = true.
C2_ExactlyOneActiveAfterRun ==
  [][\A r \in Slots :
       (pc[r] = "churn_create" /\ pc'[r] = "done" /\ res'[r].status = 200)
         => \A c \in clients[r] :
              Cardinality(ActiveRows(churnPrediction', c)) = 1]_vars

\* C3: a churn transaction that fails after updateMany, before or while
\* createMany runs, leaves the churnPrediction table exactly as it was.
C3_FailedTxLeavesTable ==
  [][\A r \in Slots :
       (pc[r] \in {"churn_tx", "churn_create"} /\ pc'[r] = "done"
          /\ res'[r].status # 200)
         => churnPrediction' = churnPrediction]_vars

\* a transaction failed after its updateMany had matched rows, and each of
\* those rows is still active
C3_Witness ==
  \E r \in Slots :
    /\ pc[r] = "done"
    /\ res[r].message = "transaction failed"
    /\ txRetired[r] # {}
    /\ \A i \in txRetired[r] : Row(i).isActive

\* C4: when the AI service refuses the connection, the request ends with
\* status 503 and that step changes no table; a table only ever changes in a
\* step of a request whose gateway call has returned.
C4_RefusalLeavesStore ==
  [][/\ \A r \in Slots :
          (axiosError'[r] = "ECONNREFUSED" /\ axiosError[r] # "ECONNREFUSED")
            => (pc'[r] = "done" /\ res'[r].status = 503 /\ UNCHANGED storeVars)
     /\ (storeVars' # storeVars)
          => \E r \in Slots :
               /\ pc[r] \in {"forecast_create", "churn_create", "sentiment_update"}
               /\ axiosError[r] = "none"]_vars

\* the OCR call was refused while every table holds rows of earlier requests
C4_Witness ==
  \E r \in Slots :
    /\ pc[r] = "done"
    /\ axiosError[r] = "ECONNREFUSED"
    /\ res[r].status = 503
    /\ reqFile[r]
    /\ churnPrediction # << >>
    /\ salesForecast # << >>
    /\ \E f \in FeedbackIds : feedback[f].isProcessed

\* C5: whatever a reader's query sees of a client that has an active row:
\* after any step the client still has an active row, and a step that adds
\* an active row for it leaves none of its earlier rows active.
C5_ReaderSeesAtomicReplace ==
  [][\A c \in Clients :
       ActiveRows(churnPrediction, c) # {}
         => /\ ActiveRows(churnPrediction', c) # {}
            /\ (\E i \in ActiveRows(churnPrediction', c) : i > Len(churnPrediction))
                 => ActiveRows(churnPrediction', c) \cap RowIds = {}]_vars

\* C6: the tier stored with a score is CRITICAL from 0.8, HIGH from 0.6,
\* MEDIUM from 0.4 and LOW below, each boundary in the higher tier.
C6_TierThresholds ==
  \A i \in RowIds :
    LET s == Row(i).churnScore
        t == Row(i).riskLevel
    IN /\ (s >= 80) => t = "CRITICAL"
       /\ (s >= 60 /\ s < 80) => t = "HIGH"
       /\ (s >= 40 /\ s < 60) => t = "MEDIUM"
       /\ (s < 40) => t = "LOW"

\* rows stored at two of the boundaries
C6_Witness ==
  \E i \in RowIds : Row(i).churnScore = 80 /\ Row(i).riskLevel = "CRITICAL"

\* C7 as stated: a score of 0.79 is stored as MEDIUM.
C7_Score79Medium ==
  \A i \in RowIds : Row(i).churnScore = 79 => Row(i).riskLevel = "MEDIUM"

\* C7 as amended: a score of 0.79 is stored as HIGH.
C7_Score79High ==
  \A i \in RowIds : Row(i).churnScore = 79 => Row(i).riskLevel = "HIGH"

C7_Witness ==
  \E i \in RowIds : Row(i).churnScore = 79

\* orders of the scope dated inside the two years before now
LookbackWindow(table, clientId) ==
  IF clientId = "null" THEN table["c1"]["window"] + table["c2"]["window"]
  ELSE table[clientId]["window"]

\* C8: a forecast request reaches the gateway only if the two years before
\* now hold at least 10 orders of its scope; a request refused for lack of
\* history gets status 400 and writes nothing.
C8_MinimumHistory ==
  [][\A r \in Slots :
       /\ (pc[r] = "idle" /\ pc'[r] = "forecast_ai")
            => LookbackWindow(order, forecastReq'[r].clientId) >= 10
       /\ (pc[r] = "idle"
             /\ res'[r].message = "Insufficient historical data for forecasting")
            => (res'[r].status = 400 /\ UNCHANGED storeVars)]_vars

\* C9: a churn request whose filtered client set is empty is answered with
\* the status of InsufficientDataError, not that of NotFoundError.
C9_EmptySetIsInsufficientData ==
  \A r \in Slots :
    res[r].message = "No clients found for analysis"
      => (res[r].status = 400 /\ res[r].status # 404)

\* C10: no step removes a churnPrediction row or changes a row's client,
\* score, tier, factors or date; isActive only ever goes from true to false.
C10_AppendOnly ==
  [][/\ Len(churnPrediction') >= Len(churnPrediction)
     /\ \A i \in RowIds :
          /\ churnPrediction'[i].clientId = Row(i).clientId
          /\ churnPrediction'[i].churnScore = Row(i).churnScore
          /\ churnPrediction'[i].riskLevel = Row(i).riskLevel
          /\ churnPrediction'[i].riskFactors = Row(i).riskFactors
          /\ churnPrediction'[i].predictionDate = Row(i).predictionDate
          /\ churnPrediction'[i].isActive => Row(i).isActive]_vars

\* a retired row is kept next to the row that replaced it
C10_Witness ==
  \E i, j \in RowIds :
    /\ i < j
    /\ Row(i).clientId = Row(j).clientId
    /\ ~Row(i).isActive
    /\ Row(j).isActive

\* C11: a forecast run only adds rows to salesForecast: every row stored
\* before a step is still there after it, at the same place and with the
\* same fields
C11_ForecastAppendOnly ==
  [][/\ Len(salesForecast') >= Len(salesForecast)
     /\ \A i \in 1 .. Len(salesForecast) : salesForecast'[i] = salesForecast[i]]_vars

\* a later run with another client scope has added its point next to an earlier one
C11_Witness ==
  \E i, j \in 1 .. Len(salesForecast) :
    /\ i < j
    /\ salesForecast[i].clientId # salesForecast[j].clientId

\* C12: a churn run that commits leaves alone every client outside the set it
\* analysed: the stored rows of such a client keep their fields and their
\* active flag, and none of the inserted rows is for such a client
C12_ChurnRunScoped ==
  [][\A r \in Slots :
       (pc[r] = "churn_create" /\ pc'[r] = "done" /\ res'[r].status = 200)
         => \A c \in Clients \ clients[r] :
              /\ \A i \in RowIds :
                   Row(i).clientId = c => churnPrediction'[i] = Row(i)
              /\ \A i \in (Len(churnPrediction) + 1) .. Len(churnPrediction') :
                   churnPrediction'[i].clientId # c]_vars

\* C13: when the AI service could not be reached (connection refused, host
\* unreachable, name not resolved) the request is answered with 503
C13_UnreachableIs503 ==
  \A r \in Slots :
    axiosError[r] \in {"ECONNREFUSED", "EHOSTUNREACH", "ENOTFOUND"}
      => res[r].status = 503

\* C14: an error raised by the gateway never carries the status of a
\* validation or insufficient-data error (400) or of a not-found error (404)
C14_GatewayErrorTellsApart ==
  \A r \in Slots :
    axiosError[r] # "none"
      => res[r].status \notin {InsufficientDataStatus, NotFoundStatus}

\* C15: a non-2xx reply of the AI service ends the request with an error that
\* has the reply's status and, when the reply carries one, the reply's
\* message; the handler does not go on with the reply as a result
C15_UpstreamReplyBecomesError ==
  \A r \in Slots :
    axiosResponse[r] # NoResponse
      => /\ pc[r] = "done"
         /\ res[r].status = axiosResponse[r].status
         /\ axiosResponse[r].message # "undefined"
              => res[r].message = axiosResponse[r].message

\* the service answered 404 with a message and the caller got both
C15_Witness ==
  \E r \in Slots :
    /\ axiosResponse[r] = [status |-> 404, message |-> "upstream message"]
    /\ res[r] = [status |-> 404, message |-> "upstream message"]

\* C16: a request makes at most one axios.post call, and a failed call (refused,
\* timeout, non-2xx, any other) ends the request with its error without
\* another call
C16_SingleAttempt ==
  [][\A r \in Slots :
       /\ axiosPosts'[r] <= 1
       /\ (axiosError[r] = "none" /\ axiosError'[r] # "none")
            => /\ pc'[r] = "done"
               /\ res'[r].status >= 400
               /\ axiosPosts'[r] = axiosPosts[r]]_vars

\* a call that timed out was the only one of its request
C16_Witness ==
  \E r \in Slots :
    /\ pc[r] = "done"
    /\ axiosError[r] = "ECONNABORTED"
    /\ axiosPosts[r] = 1

\* C17: when POST /ocr has answered a request that came with a file, on success
\* and on every error, the uploaded file is gone
C17_TempFileRemoved ==
  \A r \in Slots : (pc[r] = "done" /\ reqFile[r]) => r \notin uploads

\* the OCR call timed out after the file was stored, and the file is gone
C17_Witness ==
  \E r \in Slots :
    /\ pc[r] = "done"
    /\ reqFile[r]
    /\ axiosError[r] = "ECONNABORTED"
    /\ r \notin uploads

\* C18: the feature vector of a client without orders has avg_order_value 0,
\* days_since_last_order 999 and all three order counts 0
C18_NoOrdersDefaults ==
  (clientFeatures.client_id # "none" /\ orderRows = << >>)
    => /\ clientFeatures.avg_order_value = 0
       /\ clientFeatures.days_since_last_order = 999
       /\ clientFeatures.total_orders = 0
       /\ clientFeatures.recent_orders_3m = 0
       /\ clientFeatures.older_orders_3m = 0

\* features were extracted for a client without orders
C18_Witness == clientFeatures.client_id # "none" /\ orderRows = << >>

\* the orders dated from day `from` to day `to`, both included
OrdersDated(rows, from, to) ==
  {i \in 1 .. Len(rows) : rows[i].orderDate >= from /\ rows[i].orderDate <= to}

\* C19: recent_orders_3m is the number of orders dated in the 90 days ending at
\* now (now-90d included), older_orders_3m the number dated in
\* [now-180d, now-90d), and the two together are at most total_orders
C19_Windows ==
  clientFeatures.client_id # "none"
    => /\ clientFeatures.recent_orders_3m =
            Cardinality(OrdersDated(orderRows, Today - 90, Today))
       /\ clientFeatures.older_orders_3m =
            Cardinality(OrdersDated(orderRows, Today - 180, Today - 91))
       /\ clientFeatures.recent_orders_3m + clientFeatures.older_orders_3m
            <= clientFeatures.total_orders

\* the months (30 days each) that have an order, in ascending order
MonthsAsc(rows) ==
  LET months == {rows[i].orderDate \div 30 : i \in 1 .. Len(rows)}
      asc[S \in SUBSET months] ==
        IF S = {} THEN << >>
        ELSE LET m == CHOOSE x \in S : \A y \in S : x <= y
             IN <<m>> \o asc[S \ {m}]
  IN asc[months]

\* the orders whose date truncates to month m
OrdersOfMonth(rows, m) == SelectSeq(rows, LAMBDA row : row.orderDate \div 30 = m)

\* C20: a monthly sales-trends request without date filter is answered with one
\* bucket per month that has an order, in ascending month order, each with
\* the count, sum and average of the orders of its month
C20_MonthlyBuckets ==
  (salesTrends.period = "monthly"
     /\ salesTrends.startDate = "undefined" /\ salesTrends.endDate = "undefined")
    => /\ salesTrends.status = 200
       /\ Len(salesTrends.trends) = Len(MonthsAsc(orderRows))
       /\ \A k \in 1 .. Len(salesTrends.trends) :
            LET bucket == salesTrends.trends[k]
                orders == OrdersOfMonth(orderRows, MonthsAsc(orderRows)[k])
            IN /\ bucket.order_count = Len(orders)
               /\ bucket.total_revenue = SumAmounts(orders)
               /\ bucket.avg_order_value = (SumAmounts(orders) * 100) \div Len(orders)

\* the stored orders a ranking request with the half-open filter [start, end)
\* ranges over
InHalfOpen(row, startDate, endDate) ==
  /\ (startDate # NoDate => row.orderDate >= startDate)
  /\ (endDate # NoDate => row.orderDate < endDate)

\* orderCount of a client in the top-clients response sent last, 0 when the
\* client has no group
ReturnedCount(c) ==
  LET groups == topClients.topClients
      at == {i \in DOMAIN groups : groups[i].client = c}
  IN IF at = {} THEN 0 ELSE groups[CHOOSE i \in at : TRUE].orderCount

\* C21: a date filter is the half-open interval [start, end): a record dated
\* exactly at start is included, one dated exactly at end is excluded. Here:
\* whenever top-clients answers a request whose limit leaves room for every
\* client, each client's orderCount is the number of its orders dated in
\* [startDate, endDate).
C21_HalfOpenFilter ==
  (topClients.status = 200 /\ topClients.limit \in {"undefined", "2"})
    => \A c \in Clients :
         ReturnedCount(c) =
           Len(SelectSeq(orderRows, LAMBDA row :
                 row.clientId = c
                 /\ InHalfOpen(row, topClients.startDate, topClients.endDate)))

\* the limit the caller asked for: 10 when none is given
RequestedLimit(text) == IF text = "undefined" THEN 10 ELSE ParseInt(text)

\* C22: top-clients returns at most `limit` groups (10 when the caller gives
\* no limit), in non-increasing order of total amount, and no omitted group has
\* a larger total than a returned one.
C22_TopN ==
  topClients.status = 200 =>
    LET groups == topClients.topClients
        all == Groups(DateFilter(orderRows, topClients.startDate, topClients.endDate),
                      "clientId", "totalAmount")
        omitted == {g \in all : \A i \in DOMAIN groups : groups[i].client # g.key}
    IN /\ Len(groups) <= RequestedLimit(topClients.limit)
       /\ \A i \in 1 .. Len(groups) - 1 :
            groups[i].totalRevenue >= groups[i + 1].totalRevenue
       /\ \A g \in omitted : \A i \in DOMAIN groups : g.sum <= groups[i].totalRevenue

\* C23: for every product group of the profitability breakdown, profitMargin
\* is (averageSellingPrice - catalogPrice) / averageSellingPrice * 100, and is 0
\* whenever averageSellingPrice is 0; no division by zero occurs.
C23_ProfitMargin ==
  profitability.status = 200 =>
    \A i \in DOMAIN profitability.productProfitability :
      LET g == profitability.productProfitability[i]
          m == g.profitMargin
          price == CatalogPrice[g.productId]
      IN /\ m.kind = "number"
         /\ IF g.totalQuantity = 0 \/ g.totalRevenue = 0
              THEN m.num = 0
              ELSE m.num * g.totalRevenue
                     = (g.totalRevenue - price * g.totalQuantity) * 100 * m.den

\* the three signal sources as specified: invoices sent and past due (at most
\* 10), deliveries failed within the trailing 7 days, active predictions of
\* tier HIGH or above (at most 10)
SourceCounts(invoices, deliveries, predictions) ==
  LET min10(n) == IF n < 10 THEN n ELSE 10
  IN <<min10(Len(SelectSeq(invoices, LAMBDA row :
                   row.status = "SENT" /\ row.dueDate < Today))),
       Len(SelectSeq(deliveries, LAMBDA row :
             row.status = "FAILED" /\ row.scheduledDate >= Today - 7)),
       min10(Len(SelectSeq(predictions, LAMBDA row :
                   row.isActive /\ row.riskLevel \in {"HIGH", "CRITICAL"})))>>

AlertTypes == <<"OVERDUE_INVOICES", "FAILED_DELIVERIES", "HIGH_CHURN_RISK">>

\* the types of the non-empty sources, in the fixed evaluation order
ExpectedTypes(counts) ==
  LET add[n \in 0 .. 3] ==
        IF n = 0 THEN << >>
        ELSE IF counts[n] > 0 THEN Append(add[n - 1], AlertTypes[n]) ELSE add[n - 1]
  IN add[3]

\* a step of the alert handler: the only step that leaves every slot where it is
AlertsStep == pc' = pc /\ alerts'.status = 200

\* C24: the alert list holds exactly one alert for each signal source whose
\* result set is non-empty and none for an empty source, in the fixed order
\* overdue invoices, failed deliveries, high churn risk.
C24_OneAlertPerSource ==
  [][AlertsStep =>
       LET expected == ExpectedTypes(SourceCounts(invoice', deliverySchedule',
                                                  churnPrediction'))
       IN /\ Len(alerts'.alerts) = Len(expected)
          /\ \A i \in DOMAIN expected : alerts'.alerts[i].type = expected[i]
          /\ alerts'.totalAlerts = Len(expected)]_vars

\* C25: the high-churn-risk source selects every prediction that is active and
\* of tier HIGH or above: the HIGH_CHURN_RISK alert is raised exactly when there
\* is one, an active CRITICAL prediction included, and counts them (up to 10);
\* retired, MEDIUM and LOW predictions never count.
C25_HighOrAbove ==
  [][AlertsStep =>
       LET selected == SourceCounts(invoice', deliverySchedule', churnPrediction')[3]
           raised == {i \in DOMAIN alerts'.alerts :
                        alerts'.alerts[i].type = "HIGH_CHURN_RISK"}
       IN /\ (raised # {}) <=> (selected > 0)
          /\ \A i \in raised : alerts'.alerts[i].count = selected]_vars

\* C26: alert synthesis is a pure read: a GET /alerts leaves every record
\* (invoices, delivery schedules, predictions, and the rest of the store)
\* unchanged.
C26_PureRead ==
  [][AlertsStep => UNCHANGED <<storeVars, invoice, deliverySchedule, clientRows,
                               product, orderRows>>]_vars

\* an alert query has answered with all three alerts over a store holding an
\* overdue invoice, a failed delivery and an active HIGH prediction
C26_Witness ==
  /\ alerts.status = 200
  /\ alerts.totalAlerts = 3
  /\ Len(invoice) > 0 /\ Len(deliverySchedule) > 0
  /\ \E i \in DOMAIN churnPrediction :
       churnPrediction[i].isActive /\ churnPrediction[i].riskLevel = "HIGH"

\* C28: after any interleaving of client create and update requests, no two
\* clients in the store share the same phone number or the same businessId.
C28_NoDuplicateClients ==
  \A i, j \in DOMAIN clientRows :
    i # j => /\ clientRows[i].phone # clientRows[j].phone
             /\ (clientRows[i].businessId # "null"
                   => clientRows[i].businessId # clientRows[j].businessId)

\* the slot whose handler takes the step
Acts(r) == pc'[r] # pc[r]

\* C27: deleting a client and deleting a product are both restricted to
\* callers whose role is ADMIN or MANAGER: whenever a delete request removes a
\* client or a product, its caller has one of the two roles.
C27_DeleteNeedsRole ==
  [][\A r \in Slots :
       (Acts(r) /\ (product' # product \/ Len(clientRows') < Len(clientRows)))
         => crudReq[r].role \in {"ADMIN", "MANAGER"}]_vars

\* every stored order has exactly one delivery schedule, and every schedule
\* belongs to a stored order
OrdersPaired ==
  /\ \A i \in DOMAIN orderRows :
       Cardinality({j \in DOMAIN deliverySchedule :
                      deliverySchedule[j].orderId = orderRows[i].id}) = 1
  /\ \A j \in DOMAIN deliverySchedule :
       \E i \in DOMAIN orderRows : orderRows[i].id = deliverySchedule[j].orderId

\* C29: order creation is atomic with its delivery schedule: after every step
\* each order has exactly one delivery schedule, and a request that fails
\* (unknown client, unknown product, failure inside the transaction) creates
\* neither an order with its items nor a delivery schedule.
C29_OrderAtomic ==
  [][/\ OrdersPaired'
     /\ \A r \in Slots :
          (Acts(r) /\ res'[r].status >= 400)
            => UNCHANGED <<orderRows, deliverySchedule>>]_vars

\* an order is stored with its schedule next to a request that failed inside
\* the transaction
C29_Witness ==
  /\ Len(orderRows) = 1 /\ Len(deliverySchedule) = 1
  /\ \E r \in Slots : res[r].status = 500 /\ res[r].message = "transaction failed"

\* C30: a client or product that has an order (order item) is never deleted:
\* every stored order refers to a client that still exists and every order
\* item to a product that still exists.
C30_NoDanglingOrders ==
  \A i \in DOMAIN orderRows :
    /\ \E c \in DOMAIN clientRows : clientRows[c].id = orderRows[i].clientId
    /\ \A k \in DOMAIN orderRows[i].items : orderRows[i].items[k] \in product

====
